---- MODULE Spec2Model ----
(***************************************************************************)
(* Model of pdf_vertical_ocr_arial.py: the post-OCR text cleanup and       *)
(* correction (correct_spanish_text), the wrapping page writer             *)
(* (write_wrapped_page) and the page loop of VerticalPDFProcessor.process. *)
(*                                                                         *)
(* A text is a sequence of one-character strings.  Lengths on the page are *)
(* integers in hundredths of a point.                                      *)
(*                                                                         *)
(* Spec        the processor: construction, then process, stage by stage   *)
(* SpecCorrect setup_spell_tools and correct_spanish_text on every text    *)
(*             over the characters the rewrite rules tell apart            *)
(* SpecDict    the same over the characters the dictionary pass tells apart*)
(* SpecLayout  write_wrapped_page on every text and style                  *)
(***************************************************************************)
EXTENDS Integers, Sequences, FiniteSets, TLC

VARIABLES
    \* module globals of the corrector (lines 26-28) and its environment
    USE_LT, lt_tool, spell, ltInstalled, scInstalled, dictKind,
    \* one call of correct_spanish_text
    cpc, text, out, out2, checkRaised,
    \* one call of write_wrapped_page
    lpc, ltext, style, log,
    \* VerticalPDFProcessor.process
    pc, omit_first, nPages, i, left_pix, right_pix, raw, left_text,
    right_text, canv, saved, trace

corrVars == <<USE_LT, lt_tool, spell, ltInstalled, scInstalled, dictKind>>
callVars == <<cpc, text, out, out2, checkRaised>>
layVars  == <<lpc, ltext, style, log>>
procVars == <<pc, omit_first, nPages, i, left_pix, right_pix, raw, left_text,
              right_text, canv, saved, trace>>
vars == <<corrVars, callVars, layVars, procVars>>

\* Python's None, and the two backend objects
None == <<"None">>
LanguageTool == <<"LanguageTool">>
SpellChecker == <<"SpellChecker">>

\* ------------------------------------------------------------------ bounds
MaxLen == 4
MaxLayLen == 5
MaxPages == 3

\* ------------------------------------------------------- character classes
SP == " "
TAB == "\t"
NL == "\n"
HY == "-"

\* str.isspace for the characters of the model
WS == {SP, TAB, NL}
\* str.isalpha
Letters == {"a", "l", "x", "i"}
\* str.isalnum
AlNum == Letters \cup {"1"}

RECURSIVE SeqsUpTo(_, _)
SeqsUpTo(A, n) ==
    IF n = 0 THEN {<<>>}
    ELSE LET S == SeqsUpTo(A, n - 1)
         IN S \cup {Append(s, c) : s \in {t \in S : Len(t) = n - 1}, c \in A}

\* number of leading elements of s that belong to A
RunLen(s, A) ==
    IF \A k \in 1..Len(s) : s[k] \in A THEN Len(s)
    ELSE (CHOOSE k \in 1..Len(s) : s[k] \notin A /\ \A j \in 1..(k - 1) : s[j] \in A) - 1

Drop(s, k) == SubSeq(s, k + 1, Len(s))
Take(s, k) == SubSeq(s, 1, k)

\* the positions of S, a set of positions of s, ascending
Positions(s, S) == SelectSeq([k \in 1..Len(s) |-> k], LAMBDA k : k \in S)

\* the concatenation of the sequences of ss, each two separated by sep
RECURSIVE Concat(_, _)
Concat(ss, sep) ==
    IF ss = <<>> THEN <<>>
    ELSE IF Len(ss) = 1 THEN ss[1]
    ELSE LET h == Len(ss) \div 2
         IN Concat(Take(ss, h), sep) \o sep \o Concat(Drop(ss, h), sep)

\* text.strip() == ""
IsBlank(s) == \A k \in 1..Len(s) : s[k] \in WS

\* ------------------------------------------------ normalisation, lines 61-64
\* re.sub replaces the leftmost non-overlapping matches; each rule below says
\* which positions of s its matches delete.

\* s without the positions of the set gone
Without(s, gone) ==
    LET idx == Positions(s, (1..Len(s)) \ gone)
    IN [k \in 1..Len(idx) |-> s[idx[k]]]

\* re.sub(r"-\n", "", text): a hyphen before a break goes, and so does the break
Rule1(s) ==
    Without(s, {k \in 1..Len(s) : \/ s[k] = HY /\ k < Len(s) /\ s[k + 1] = NL
                                  \/ s[k] = NL /\ k > 1 /\ s[k - 1] = HY})

\* re.sub(r"[ \t]+\n", "\n", text): blanks that run up to a break go
Rule2(s) ==
    Without(s, {k \in 1..Len(s) :
                   /\ s[k] \in {SP, TAB}
                   /\ \E j \in (k + 1)..Len(s) :
                         /\ s[j] = NL
                         /\ \A m \in k..(j - 1) : s[m] \in {SP, TAB}})

\* re.sub(r"\n{3,}", "\n\n", text): of a run of breaks the first two stay
Rule3(s) ==
    Without(s, {k \in 1..Len(s) : s[k] = NL /\ k > 2 /\ s[k - 1] = NL /\ s[k - 2] = NL})

\* rule 4 left out
Rule4SpacesKept(s) == s

\* re.sub(r"[ ]{2,}", " ", text): of a run of spaces the first stays
Rule4(s) ==
    Without(s, {k \in 1..Len(s) : s[k] = SP /\ k > 1 /\ s[k - 1] = SP})

\* the four rewrite rules in the order the code applies them
Normalize(s) == Rule4(Rule3(Rule2(Rule1(s))))

\* ---------------------------------------------- the two external correctors
\* language_tool_python.utils.correct(text, lt_tool.check(text)): an external
\* checker; here it restores the accent-less "i" for an OCR "1".
LTCorrect(s) == [k \in 1..Len(s) |-> IF s[k] = "1" THEN "i" ELSE s[k]]

\* spell.correction(core): None when the dictionary knows no candidate;
\* the "fix" dictionary reads an OCR "1" as "l", the "same" one knows the word.
SpellCorrection(core) ==
    CASE dictKind = "none" -> None
      [] dictKind = "same" -> core
      [] OTHER -> [k \in 1..Len(core) |-> IF core[k] = "1" THEN "l" ELSE core[k]]

\* text.split(): the maximal runs of non-whitespace, in order
Split(s) ==
    LET first == Positions(s, {k \in 1..Len(s) :
                                  s[k] \notin WS /\ (k = 1 \/ s[k - 1] \in WS)})
        last == Positions(s, {k \in 1..Len(s) :
                                 s[k] \notin WS /\ (k = Len(s) \/ s[k + 1] \in WS)})
    IN [k \in 1..Len(first) |-> SubSeq(s, first[k], last[k])]

\* " ".join(tokens)
Join(toks) == Concat(toks, <<SP>>)

Reverse(s) == [k \in 1..Len(s) |-> s[Len(s) + 1 - k]]

\* the token rebuilt without its trailing punctuation
DictTokenNoSuffix(tok) ==
    IF \E k \in 1..Len(tok) : tok[k] \in Letters
    THEN LET p == RunLen(tok, {c \in {tok[k] : k \in 1..Len(tok)} : c \notin AlNum})
             rest == Drop(tok, p)
             q == RunLen(Reverse(rest),
                         {c \in {rest[k] : k \in 1..Len(rest)} : c \notin AlNum})
             core == Take(rest, Len(rest) - q)
             suggestion == SpellCorrection(core)
         IN IF core # <<>> /\ suggestion # None /\ suggestion # <<>>
            THEN Take(tok, p) \o suggestion
            ELSE tok
    ELSE tok

\* lines 79-90: one token of the dictionary pass
DictToken(tok) ==
    IF \E k \in 1..Len(tok) : tok[k] \in Letters
    THEN LET p == RunLen(tok, {c \in {tok[k] : k \in 1..Len(tok)} : c \notin AlNum})
             rest == Drop(tok, p)
             q == RunLen(Reverse(rest),
                         {c \in {rest[k] : k \in 1..Len(rest)} : c \notin AlNum})
             core == Take(rest, Len(rest) - q)
             suggestion == SpellCorrection(core)
         IN IF core # <<>> /\ suggestion # None /\ suggestion # <<>>
            THEN Take(tok, p) \o suggestion \o Drop(rest, Len(rest) - q)
            ELSE tok
    ELSE tok

\* lines 76-91: the dictionary backend on an already normalised text
DictBackend(s) ==
    LET toks == Split(s)
    IN Join([k \in 1..Len(toks) |-> DictToken(toks[k])])

\* lines 52-94.  lt is the value of lt_tool, sc of spell, fails whether
\* lt_tool.check raises in this call (the except of line 72 swallows it).
CorrectSpanishText(s, lt, sc, fails) ==
    IF s = <<>> \/ IsBlank(s) THEN s
    ELSE LET n == Normalize(s)
         IN IF lt # None /\ ~fails THEN LTCorrect(n)
            ELSE IF sc # None THEN DictBackend(n)
            ELSE n

\* ------------------------------------------- write_wrapped_page, lines 125-158
\* A4 of reportlab.lib.pagesizes, in hundredths of a point
PageW == 59528
PageH == 84189
\* line_h = font_size * 1.27
LeadingPct == 127

\* pdfmetrics.stringWidth(t, font_name, font_size) for a face whose every glyph
\* advances half an em
StringWidth(t, fs) == Len(t) * fs * 50

\* raw_line.rstrip()
RStrip(s) == Take(s, Len(s) - RunLen(Reverse(s), WS))

\* text.splitlines(): a line ends at each break; what follows the last break
\* is a line too unless it is empty
SplitLines(s) ==
    LET brk == Positions(s, {k \in 1..Len(s) : s[k] = NL})
        n == Len(brk)
        ended == [k \in 1..n |-> SubSeq(s, (IF k = 1 THEN 0 ELSE brk[k - 1]) + 1, brk[k] - 1)]
        from == IF n = 0 THEN 0 ELSE brk[n]
    IN IF from < Len(s) THEN Append(ended, Drop(s, from)) ELSE ended

\* reportlab's _simpleSplit: words join the open line while its width, the
\* words' widths and a space between each two, stays within mW; a line always
\* takes its first word.  One step closes one line.
RECURSIVE SimpleSplitWords(_, _, _)
SimpleSplitWords(words, mW, fs) ==
    IF words = <<>> THEN <<>>
    ELSE LET Fits(m) == \A j \in 2..m : StringWidth(Join(Take(words, j)), fs) <= mW
             n == CHOOSE m \in 1..Len(words) :
                      Fits(m) /\ (m < Len(words) => ~Fits(m + 1))
         IN <<Join(Take(words, n))>> \o SimpleSplitWords(Drop(words, n), mW, fs)

\* simpleSplit(line, font_name, font_size, usable_w)
SimpleSplit(line, fs, mW) == SimpleSplitWords(Split(line), mW, fs)

\* what the canvas is asked to do; y is the cursor when it is asked
DrawString(y, s) == [op |-> "drawString", y |-> y, s |-> s]
ShowPage(y) == [op |-> "showPage", y |-> y, s |-> <<>>]

\* lines 142-152: what each input line asks for, in order: a blank line asks
\* for an empty advance, any other line for one drawn line per wrapped segment
ItemsOfLine(raw_line, st) ==
    LET line == RStrip(raw_line)
        segs == SimpleSplit(line, st.font_size, PageW - st.left - st.right)
    IN IF IsBlank(line) THEN <<[draw |-> FALSE, s |-> <<>>]>>
       ELSE [k \in 1..Len(segs) |-> [draw |-> TRUE, s |-> segs[k]]]

LineItems(lines, st) ==
    Concat([k \in 1..Len(lines) |-> ItemsOfLine(lines[k], st)], <<>>)

\* the items that go on a page whose cursor stands at y: all of them, or
\* those up to the first whose descent takes the cursor below the bottom margin
OnPage(items, y, st) ==
    LET line_h == st.font_size * LeadingPct
        Below(m) == y - m * line_h < st.bottom
    IN IF \E m \in 1..Len(items) : Below(m)
       THEN CHOOSE m \in 1..Len(items) : Below(m) /\ \A j \in 1..(m - 1) : ~Below(j)
       ELSE Len(items)

\* lines 145-156: draw (or skip), descend one line, seal when below the margin
\* and go on at the top margin.  One step fills one page.
RECURSIVE Emit(_, _, _)
Emit(items, y, st) ==
    IF items = <<>> THEN <<>>
    ELSE LET line_h == st.font_size * LeadingPct
             n == OnPage(items, y, st)
             drawn == Positions(items, {k \in 1..n : items[k].draw})
             draws == [k \in 1..Len(drawn) |->
                          DrawString(y - (drawn[k] - 1) * line_h, items[drawn[k]].s)]
         IN IF y - n * line_h < st.bottom
            THEN draws \o <<ShowPage(y - n * line_h)>>
                       \o Emit(Drop(items, n), PageH - st.top, st)
            ELSE draws

\* the cursor after Emit
RECURSIVE CursorAfter(_, _, _)
CursorAfter(items, y, st) ==
    IF items = <<>> THEN y
    ELSE LET line_h == st.font_size * LeadingPct
             n == OnPage(items, y, st)
         IN IF y - n * line_h < st.bottom
            THEN CursorAfter(Drop(items, n), PageH - st.top, st)
            ELSE y - n * line_h

\* the writer without the showPage of line 158
WriteWrappedPageNoFinalSeal(t, st) ==
    IF t = <<>> \/ IsBlank(t) THEN <<ShowPage(PageH - st.top)>>
    ELSE Emit(LineItems(SplitLines(t), st), PageH - st.top, st)

\* the writer without the return of line 140
WriteWrappedPageNoReturn(t, st) ==
    LET items == LineItems(SplitLines(t), st)
    IN (IF t = <<>> \/ IsBlank(t) THEN <<ShowPage(PageH - st.top)>> ELSE <<>>)
       \o Emit(items, PageH - st.top, st)
       \o <<ShowPage(CursorAfter(items, PageH - st.top, st))>>

\* write_wrapped_page(text, canv, font_name, font_size, margins): the calls the
\* canvas receives
WriteWrappedPage(t, st) ==
    IF t = <<>> \/ IsBlank(t) THEN <<ShowPage(PageH - st.top)>>
    ELSE LET items == LineItems(SplitLines(t), st)
         IN Emit(items, PageH - st.top, st)
            \o <<ShowPage(CursorAfter(items, PageH - st.top, st))>>

\* the sealed pages of a log
Pages(lg) == Cardinality({k \in 1..Len(lg) : lg[k].op = "showPage"})

\* the margins are given in points
Style(fs, l, r, t, b) ==
    [font_size |-> fs, left |-> l * 100, right |-> r * 100,
     top |-> t * 100, bottom |-> b * 100]

\* font_size=11, margins=(50,50,50,50): the defaults, which process uses
DefaultStyle == Style(11, 50, 50, 50, 50)

\* ============================================================ state machines
\* ------------------------------------------------ the corrector's globals
\* lines 26-28
GlobalsAtImport == USE_LT = TRUE /\ lt_tool = None /\ spell = None

DictKinds == {"fix", "same", "none"}

\* which optional packages the machine has, and how its dictionary answers
Environment ==
    /\ ltInstalled \in BOOLEAN
    /\ scInstalled \in BOOLEAN
    /\ dictKind \in (IF scInstalled THEN DictKinds ELSE {"none"})

\* setup_spell_tools, lines 30-50
setup_spell_tools ==
    /\ IF ltInstalled
       THEN lt_tool' = LanguageTool /\ USE_LT' = TRUE /\ UNCHANGED spell
       ELSE /\ USE_LT' = FALSE
            /\ UNCHANGED lt_tool
            /\ spell' = IF scInstalled THEN SpellChecker ELSE spell
    /\ UNCHANGED <<ltInstalled, scInstalled, dictKind>>

CallIdle == cpc = "idle" /\ text = <<>> /\ out = <<>> /\ out2 = <<>> /\ checkRaised = FALSE
LayIdle == lpc = "idle" /\ ltext = <<>> /\ style = DefaultStyle /\ log = <<>>
ProcIdle ==
    /\ pc = "idle" /\ omit_first = TRUE /\ nPages = 0 /\ i = 0
    /\ left_pix = None /\ right_pix = None /\ raw = <<>>
    /\ left_text = <<>> /\ right_text = <<>>
    /\ canv = <<>> /\ saved = FALSE /\ trace = <<>>

\* ------------------------------------- calls of correct_spanish_text
NormAlphabet == {"a", HY, SP, TAB, NL}
DictAlphabet == {"a", "1", "!", "(", SP}

\* the module is imported and set up
Setup ==
    /\ cpc = "import"
    /\ setup_spell_tools
    /\ cpc' = "ready"
    /\ UNCHANGED <<text, out, out2, checkRaised, layVars, procVars>>

\* correct_spanish_text(text); lt_tool.check may raise
Call ==
    /\ cpc = "ready"
    /\ \E fails \in (IF lt_tool = None THEN {FALSE} ELSE BOOLEAN) :
          /\ out' = CorrectSpanishText(text, lt_tool, spell, fails)
          /\ checkRaised' = fails
    /\ cpc' = "returned"
    /\ UNCHANGED <<text, out2, corrVars, layVars, procVars>>

\* the result is corrected once more, the checker behaving as before
CallAgain ==
    /\ cpc = "returned"
    /\ out2' = CorrectSpanishText(out, lt_tool, spell, checkRaised)
    /\ cpc' = "returned2"
    /\ UNCHANGED <<text, out, checkRaised, corrVars, layVars, procVars>>

InitCorrect ==
    /\ GlobalsAtImport /\ Environment
    /\ cpc = "import" /\ text \in SeqsUpTo(NormAlphabet, MaxLen)
    /\ out = <<>> /\ out2 = <<>> /\ checkRaised = FALSE
    /\ LayIdle /\ ProcIdle

InitDict ==
    /\ GlobalsAtImport /\ Environment
    /\ cpc = "import" /\ text \in SeqsUpTo(DictAlphabet, MaxLen)
    /\ out = <<>> /\ out2 = <<>> /\ checkRaised = FALSE
    /\ LayIdle /\ ProcIdle

NextCorrect == Setup \/ Call \/ CallAgain

SpecCorrect == InitCorrect /\ [][NextCorrect]_vars
SpecDict == InitDict /\ [][NextCorrect]_vars

\* ------------------------------------- calls of write_wrapped_page
LayAlphabet == {"x", SP, NL}

\* the defaults; a narrow page of two lines of two glyphs; a wide page of three
Styles == {DefaultStyle, Style(11, 290, 290, 400, 414), Style(11, 50, 50, 400, 400)}

Write ==
    /\ lpc = "call"
    /\ log' = WriteWrappedPage(ltext, style)
    /\ lpc' = "returned"
    /\ UNCHANGED <<ltext, style, corrVars, callVars, procVars>>

InitLayout ==
    /\ GlobalsAtImport /\ ltInstalled = FALSE /\ scInstalled = FALSE /\ dictKind = "none"
    /\ CallIdle /\ ProcIdle
    /\ lpc = "call" /\ ltext \in SeqsUpTo(LayAlphabet, MaxLayLen)
    /\ style \in Styles /\ log = <<>>

NextLayout == Write

SpecLayout == InitLayout /\ [][NextLayout]_vars

\* ------------------------------------- VerticalPDFProcessor, lines 170-218
\* what the recognizer may return for one half: nothing, a short word with an
\* OCR slip, a column of more lines than one output page holds
LongLines == 55
LongText == [k \in 1..(2 * LongLines - 1) |-> IF k % 2 = 1 THEN "x" ELSE NL]
OcrTexts == {<<>>, <<"a", "1">>, LongText}

\* the start when the flag is ignored
StartPageZero(omit) == 0

\* start_page = 1 if self.omit_first else 0
StartPage(omit) == IF omit THEN 1 ELSE 0

\* a pipeline stage on one half of input page i+1 (1-based), as it is begun
Stage(name, side) == [stage |-> name, side |-> side, page |-> i + 1]

\* the pages a call of write_wrapped_page seals, tagged with their origin
Sealed(t, side) ==
    [k \in 1..Pages(WriteWrappedPage(t, DefaultStyle)) |-> [page |-> i + 1, side |-> side]]

\* __init__, lines 174-178
Construct ==
    /\ pc = "new"
    /\ setup_spell_tools
    /\ pc' = "constructed"
    /\ UNCHANGED <<omit_first, nPages, i, left_pix, right_pix, raw, left_text,
                   right_text, canv, saved, trace, callVars, layVars>>

\* process, lines 182-192: open the input, make the canvas, find the start
Open ==
    /\ pc = "constructed"
    /\ canv' = <<>>
    /\ i' = StartPage(omit_first)
    /\ pc' = "for"
    /\ UNCHANGED <<omit_first, nPages, left_pix, right_pix, raw, left_text,
                   right_text, saved, trace, corrVars, callVars, layVars>>

\* line 193: the loop has a page left
ForPage ==
    /\ pc = "for" /\ i < nPages
    /\ pc' = "get_left_pix"
    /\ UNCHANGED <<omit_first, nPages, i, left_pix, right_pix, raw, left_text,
                   right_text, canv, saved, trace, corrVars, callVars, layVars>>

\* line 203
RasterizeLeft ==
    /\ pc = "get_left_pix"
    /\ left_pix' = <<"pixmap", i + 1, "left">>
    /\ trace' = Append(trace, Stage("Rasterize", "left"))
    /\ pc' = "get_right_pix"
    /\ UNCHANGED <<omit_first, nPages, i, right_pix, raw, left_text, right_text,
                   canv, saved, corrVars, callVars, layVars>>

\* line 204
RasterizeRight ==
    /\ pc = "get_right_pix"
    /\ right_pix' = <<"pixmap", i + 1, "right">>
    /\ trace' = Append(trace, Stage("Rasterize", "right"))
    /\ pc' = "ocr_left"
    /\ UNCHANGED <<omit_first, nPages, i, left_pix, raw, left_text, right_text,
                   canv, saved, corrVars, callVars, layVars>>

\* ocr_half_pixmap, lines 161-167, called at `at`: pytesseract returns a text
\* or raises, and nothing between the call and process's caller catches
OcrHalf(at, side, next) ==
    /\ pc = at
    /\ trace' = Append(trace, Stage("Recognize", side))
    /\ \/ \E t \in OcrTexts : raw' = t /\ pc' = next
       \/ raw' = raw /\ pc' = "raised"
    /\ UNCHANGED <<omit_first, nPages, i, left_pix, right_pix, left_text,
                   right_text, canv, saved, corrVars, callVars, layVars>>

\* line 207 reading the right half
RecognizeLeftOfRightHalf == OcrHalf("ocr_left", "right", "correct_left")

\* line 207, the inner call
RecognizeLeft == OcrHalf("ocr_left", "left", "correct_left")

\* line 207, the outer call
CorrectLeft ==
    /\ pc = "correct_left"
    /\ \E fails \in (IF lt_tool = None THEN {FALSE} ELSE BOOLEAN) :
          left_text' = CorrectSpanishText(raw, lt_tool, spell, fails)
    /\ trace' = Append(trace, Stage("Clean+Correct", "left"))
    /\ pc' = "ocr_right"
    /\ UNCHANGED <<omit_first, nPages, i, left_pix, right_pix, raw, right_text,
                   canv, saved, corrVars, callVars, layVars>>

\* line 208, the inner call
RecognizeRight == OcrHalf("ocr_right", "right", "correct_right")

\* line 208, the outer call
CorrectRight ==
    /\ pc = "correct_right"
    /\ \E fails \in (IF lt_tool = None THEN {FALSE} ELSE BOOLEAN) :
          right_text' = CorrectSpanishText(raw, lt_tool, spell, fails)
    /\ trace' = Append(trace, Stage("Clean+Correct", "right"))
    /\ pc' = "write_left"
    /\ UNCHANGED <<omit_first, nPages, i, left_pix, right_pix, raw, left_text,
                   canv, saved, corrVars, callVars, layVars>>

\* line 211
LayoutLeft ==
    /\ pc = "write_left"
    /\ canv' = canv \o Sealed(left_text, "left")
    /\ trace' = Append(trace, Stage("Layout-emit", "left"))
    /\ pc' = "write_right"
    /\ UNCHANGED <<omit_first, nPages, i, left_pix, right_pix, raw, left_text,
                   right_text, saved, corrVars, callVars, layVars>>

\* line 212, and the loop's step to the next page
LayoutRight ==
    /\ pc = "write_right"
    /\ canv' = canv \o Sealed(right_text, "right")
    /\ trace' = Append(trace, Stage("Layout-emit", "right"))
    /\ i' = i + 1
    /\ pc' = "for"
    /\ UNCHANGED <<omit_first, nPages, left_pix, right_pix, raw, left_text,
                   right_text, saved, corrVars, callVars, layVars>>

\* lines 216-217: the loop is over, canv.save()
Save ==
    /\ pc = "for" /\ i >= nPages
    /\ saved' = TRUE
    /\ pc' = "done"
    /\ UNCHANGED <<omit_first, nPages, i, left_pix, right_pix, raw, left_text,
                   right_text, canv, trace, corrVars, callVars, layVars>>

Init ==
    /\ GlobalsAtImport /\ Environment
    /\ CallIdle /\ LayIdle
    /\ pc = "new" /\ omit_first \in BOOLEAN /\ nPages \in 1..MaxPages
    /\ i = 0 /\ left_pix = None /\ right_pix = None /\ raw = <<>>
    /\ left_text = <<>> /\ right_text = <<>>
    /\ canv = <<>> /\ saved = FALSE /\ trace = <<>>

Next ==
    \/ Construct \/ Open \/ ForPage
    \/ RasterizeLeft \/ RasterizeRight
    \/ RecognizeLeft \/ CorrectLeft \/ RecognizeRight \/ CorrectRight
    \/ LayoutLeft \/ LayoutRight
    \/ Save

Spec == Init /\ [][Next]_vars

\* ==================================================================== claims
\* the input pages process has begun, in the order it began them
Visited ==
    LET firsts == SelectSeq(trace, LAMBDA e : e.stage = "Rasterize" /\ e.side = "left")
    IN [k \in 1..Len(firsts) |-> firsts[k].page]

ProcessStarted == pc \notin {"idle", "new", "constructed"}

\* C1: a recognizer failure on one half never aborts the run: no exception
\* raised by the recognizer leaves process before canv.save.
C1_RecognizerFailureNeverAborts == pc # "raised"

\* C2: with skip-first enabled process visits input pages 2..N, each once, in
\* ascending order and never page 1; the output is, in the same order, one group
\* per visited page, the left half's sealed pages (at least one) followed by the
\* right half's (at least one); a run that reaches canv.save has visited all of
\* 2..N and its output holds exactly N-1 groups.
C2_SkipFirstVisitsAndGroups ==
    (ProcessStarted /\ omit_first) =>
        /\ Len(Visited) <= nPages - 1
        /\ \A k \in 1..Len(Visited) : Visited[k] = k + 1
        /\ \A k \in 1..Len(canv) : canv[k].page \in {Visited[j] : j \in 1..Len(Visited)}
        /\ \A k \in 1..(Len(canv) - 1) :
              \/ canv[k].page < canv[k + 1].page
              \/ canv[k].page = canv[k + 1].page
                 /\ (canv[k].side = "right" => canv[k + 1].side = "right")
        /\ pc = "done" =>
              /\ Len(Visited) = nPages - 1
              /\ \A p \in 2..nPages : \A sd \in {"left", "right"} :
                    \E k \in 1..Len(canv) : canv[k] = [page |-> p, side |-> sd]

\* C2 witness: a finished run over three pages, the first skipped, one of whose
\* two groups holds more than two output pages
C2_Witness ==
    /\ pc = "done" /\ omit_first /\ nPages = 3
    /\ Visited = <<2, 3>>
    /\ Len(canv) > 4

\* the order of the stages on one page as the specification gives it
SpecOrder ==
    << <<"Rasterize", "left">>, <<"Recognize", "left">>,
       <<"Clean+Correct", "left">>, <<"Layout-emit", "left">>,
       <<"Rasterize", "right">>, <<"Recognize", "right">>,
       <<"Clean+Correct", "right">>, <<"Layout-emit", "right">> >>

\* the order of the stages on one page as lines 203-212 perform them
CodeOrder ==
    << <<"Rasterize", "left">>, <<"Rasterize", "right">>,
       <<"Recognize", "left">>, <<"Clean+Correct", "left">>,
       <<"Recognize", "right">>, <<"Clean+Correct", "right">>,
       <<"Layout-emit", "left">>, <<"Layout-emit", "right">> >>

\* the stages performed so far are, page after page, those of order
FollowsOrder(order) ==
    \A k \in 1..Len(trace) :
        /\ <<trace[k].stage, trace[k].side>> = order[((k - 1) % 8) + 1]
        /\ trace[k].page = StartPage(omit_first) + ((k - 1) \div 8) + 1

\* C4 as stated: on every visited page the stages run in the order Rasterize,
\* Recognize, Clean+Correct, Layout-emit of the left half, then the same four of
\* the right half, and the next page starts after Layout-emit(right).
C4_StagesInSpecOrder == FollowsOrder(SpecOrder)

\* C4 amended: on every visited page the stages run in the order
\* Rasterize(left), Rasterize(right), Recognize(left), Clean+Correct(left),
\* Recognize(right), Clean+Correct(right), Layout-emit(left),
\* Layout-emit(right); no stage of the next page starts before
\* Layout-emit(right).
C4_StagesInCodeOrder == FollowsOrder(CodeOrder)

\* C4 witness: a page has gone through all eight stages and the next has begun
C4_Witness == Len(trace) > 8 /\ pc = "get_right_pix"

\* C3: when lt_tool.check raises, a non-blank text comes back as the dictionary
\* backend's output for the normalised text, or as the normalised text when
\* no dictionary is to be had.
C3_GrammarFailureFallsToDictionary ==
    (cpc = "returned" /\ checkRaised /\ ~IsBlank(text)) =>
        out = IF scInstalled THEN DictBackend(Normalize(text)) ELSE Normalize(text)

\* C5: normalisation is idempotent: cleaning an already cleaned text (no
\* corrector present) gives the same text.
C5_NormalizeIdempotent ==
    (cpc = "returned2" /\ lt_tool = None /\ spell = None) => out2 = out

NoBackend == lt_tool = None /\ spell = None

\* C9 as stated: the normalised text holds no two adjacent characters drawn
\* from {space, tab}.
C9_NoBlankRun ==
    (cpc = "returned" /\ NoBackend /\ ~IsBlank(text)) =>
        \A k \in 1..(Len(out) - 1) : ~(out[k] \in {SP, TAB} /\ out[k + 1] \in {SP, TAB})

CountOf(s, c) == Cardinality({k \in 1..Len(s) : s[k] = c})

\* the maximal runs of spaces of s
SpaceRuns(s) == Cardinality({k \in 1..Len(s) : s[k] = SP /\ (k = 1 \/ s[k - 1] # SP)})

\* C9 amended: the normalised text of a non-blank input holds no two adjacent
\* spaces: every run of two or more spaces left by rules 1-3 has become exactly
\* one space; nothing but spaces is deleted, and tabs are never collapsed.
C9_NoSpaceRun ==
    (cpc = "returned" /\ NoBackend /\ ~IsBlank(text)) =>
        LET pre == Rule3(Rule2(Rule1(text)))
        IN /\ \A k \in 1..(Len(out) - 1) : ~(out[k] = SP /\ out[k + 1] = SP)
           /\ SelectSeq(out, LAMBDA c : c # SP) = SelectSeq(pre, LAMBDA c : c # SP)
           /\ CountOf(out, TAB) = CountOf(pre, TAB)
           /\ SpaceRuns(out) = SpaceRuns(pre)

\* C9 witness: two spaces between two letters came back as one
C9_Witness ==
    /\ cpc = "returned" /\ NoBackend
    /\ text = <<"a", SP, SP, "a">> /\ out = <<"a", SP, "a">>

\* the longest leading run of non-alphanumeric characters of tok
MaxLead(tok) ==
    CHOOSE p \in 0..Len(tok) :
        /\ \A k \in 1..p : tok[k] \notin AlNum
        /\ p < Len(tok) => tok[p + 1] \in AlNum

\* the longest trailing run of non-alphanumeric characters of tok
MaxTrail(tok) ==
    CHOOSE q \in 0..Len(tok) :
        /\ \A k \in (Len(tok) - q + 1)..Len(tok) : tok[k] \notin AlNum
        /\ q < Len(tok) => tok[Len(tok) - q] \in AlNum

\* what C8 says the dictionary backend emits for tok
Emitted(tok) ==
    LET p == MaxLead(tok)
        q == MaxTrail(tok)
        core == SubSeq(tok, p + 1, Len(tok) - q)
    IN IF (\E k \in 1..Len(tok) : tok[k] \in Letters) /\ SpellCorrection(core) # None
       THEN SubSeq(tok, 1, p) \o SpellCorrection(core) \o SubSeq(tok, Len(tok) - q + 1, Len(tok))
       ELSE tok

\* C8: the dictionary backend emits every token that holds a letter as its
\* longest non-alphanumeric lead, the correction of its core, and its longest
\* non-alphanumeric tail, both verbatim; a token without a letter, or whose
\* lookup suggests nothing, is emitted unchanged.
C8_DictionaryKeepsPunctuation ==
    (cpc = "returned" /\ lt_tool = None /\ spell # None /\ ~IsBlank(text)) =>
        LET toks == Split(Normalize(text))
            outs == Split(out)
        IN /\ Len(outs) = Len(toks)
           /\ \A k \in 1..Len(toks) : outs[k] = Emitted(toks[k])

\* C8 witness: "(a1!" came back as "(al!"
C8_Witness ==
    /\ cpc = "returned" /\ lt_tool = None /\ spell # None /\ dictKind = "fix"
    /\ text = <<"(", "a", "1", "!">> /\ out = <<"(", "a", "l", "!">>

\* C6: every call seals at least one page and ends with a seal; for an empty or
\* whitespace-only text it seals exactly one page and draws nothing.
C6_AlwaysSealsAPage ==
    lpc = "returned" =>
        /\ Pages(log) >= 1
        /\ log[Len(log)].op = "showPage"
        /\ IsBlank(ltext) => log = <<ShowPage(PageH - style.top)>>

\* C6 witness: a whitespace-only text gave one blank page
C6_Witness == lpc = "returned" /\ ltext = <<SP, NL, SP>> /\ Pages(log) = 1

\* C7 as stated: no text that is at most as long as the one laid out takes
\* more pages in the same style.
C7_MonotoneInLength ==
    lpc = "returned" =>
        \A a \in SeqsUpTo(LayAlphabet, Len(ltext)) :
            Pages(WriteWrappedPage(a, style)) <= Pages(log)

\* C7 amended: for a fixed style, extending a text never yields fewer pages:
\* no prefix of the text laid out takes more pages than the text.
C7_MonotoneUnderExtension ==
    lpc = "returned" =>
        \A k \in 0..Len(ltext) :
            Pages(WriteWrappedPage(Take(ltext, k), style)) <= Pages(log)

\* C7 witness: a text of two pages whose first character alone takes one
C7_Witness ==
    /\ lpc = "returned" /\ Len(ltext) = MaxLayLen /\ Pages(log) = 2
    /\ Pages(WriteWrappedPage(Take(ltext, 1), style)) = 1

\* the lines a fresh page of style st holds before the cursor falls below the
\* bottom margin
LinesPerPage(st) ==
    CHOOSE n \in 1..100 :
        /\ PageH - st.top - n * st.font_size * LeadingPct < st.bottom
        /\ \A m \in 1..(n - 1) : PageH - st.top - m * st.font_size * LeadingPct >= st.bottom

Draws(lg) == Cardinality({k \in 1..Len(lg) : lg[k].op = "drawString"})

\* C10: a seal other than the final one happens only with a display line
\* pending, which is drawn right after it at the top margin; no line is drawn
\* below the bottom margin; a text whose lines exactly fill k pages is sealed
\* into exactly k pages.
C10_SealOnlyBeforePendingLine ==
    (lpc = "returned" /\ ~IsBlank(ltext)) =>
        /\ \A k \in 1..(Len(log) - 1) :
              log[k].op = "showPage" =>
                  /\ log[k + 1].op = "drawString"
                  /\ log[k + 1].y = PageH - style.top
        /\ \A k \in 1..Len(log) : log[k].op = "drawString" => log[k].y >= style.bottom
        /\ (\A l \in 1..Len(SplitLines(ltext)) : ~IsBlank(SplitLines(ltext)[l])) =>
              (Draws(log) % LinesPerPage(style) = 0 =>
                  Pages(log) = Draws(log) \div LinesPerPage(style))

====
